---- MODULE Spec2Model ----
(***************************************************************************)
(* Model of script.js, the logic of the "100 Days Better Me" habit         *)
(* tracker: the in-memory appData object, its copy in localStorage, the    *)
(* handlers saveHabit, saveWhy and restartChallenge, the page load (the    *)
(* script and init) and the two delayed callbacks that touch appData.      *)
(*                                                                         *)
(* Numbers.  A JavaScript number is modelled as a record [t, n, s, h]:     *)
(*   t = "num"   a finite number, a double, written as the engine writes   *)
(*               it (Number::toString): the shortest decimal that the      *)
(*               double is the nearest double to.  The decimal is          *)
(*               (h * 10^9 + |n|) / 10^s with the sign of n: 7.5 is n =    *)
(*               75, s = 1, h = 0; 100 is n = 100, s = 0; 1e10 is n = 1,   *)
(*               s = -10; 1.5699999999999998 is h = 15699999, n =          *)
(*               999999998, s = 16.  Every double has one such record:     *)
(*               an integer below 10^9 has s = 0 and h = 0, every other    *)
(*               number has digits that do not end in 0; -0 is 0;          *)
(*   t = "inf"   Infinity;   t = "ninf"  -Infinity;   t = "nan"  NaN;      *)
(*   t = "null"  the value null (a habit not logged yet).                  *)
(* A text is read, and 1 is added, as the engine does it: the exact result *)
(* is rounded to the nearest double, a tie to the one with the even        *)
(* mantissa.                                                               *)
(* A raw input (the text of an <input>) is a sequence of characters.       *)
(***************************************************************************)
EXTENDS Integers, Sequences, FiniteSets, TLC

Null == [t |-> "null", n |-> 0, s |-> 0, h |-> 0]
NaN == [t |-> "nan", n |-> 0, s |-> 0, h |-> 0]
Infinity == [t |-> "inf", n |-> 0, s |-> 0, h |-> 0]
NegInfinity == [t |-> "ninf", n |-> 0, s |-> 0, h |-> 0]
Zero == [t |-> "num", n |-> 0, s |-> 0, h |-> 0]

RECURSIVE Pow10(_)
Pow10(e) == IF e <= 0 THEN 1 ELSE 10 * Pow10(e - 1)

RECURSIVE Pow5(_)
Pow5(e) == IF e <= 0 THEN 1 ELSE 5 * Pow5(e - 1)

\* the number of decimal digits of m >= 0 (0 has none)
RECURSIVE NumDigits(_)
NumDigits(m) == IF m = 0 THEN 0 ELSE 1 + NumDigits(m \div 10)

Abs(x) == IF x < 0 THEN 0 - x ELSE x
Max(x, y) == IF x >= y THEN x ELSE y
Min(x, y) == IF x <= y THEN x ELSE y

(***************************************************************************)
(* Natural numbers of any size: the sequence of the decimal digits, units  *)
(* first, with no zero at the top; 0 is the empty sequence.  A value that  *)
(* is used more than once is bound by "x \in {value}", which computes it   *)
(* once.                                                                   *)
(***************************************************************************)
Dig(a, i) == IF i <= Len(a) THEN a[i] ELSE 0
One == <<1>>

\* a without the zeros at its top
Trim(a0) ==
  CHOOSE r \in
    {LET n == Len(a)
         z == CHOOSE k \in 0..n :
                /\ k = n \/ a[n - k] # 0
                /\ \A j \in 0..(k - 1) : a[n - j] = 0
     IN  SubSeq(a, 1, n - z) : a \in {a0}} : TRUE

\* 2a + bit
DoublePlus(a0, bit) ==
  CHOOSE r \in
    {LET n == Len(a)
         m == IF n > 0 /\ a[n] >= 5 THEN n + 1 ELSE IF n = 0 THEN bit ELSE n
     IN  SubSeq([i \in 1..m |->
                   ((2 * Dig(a, i)) % 10)
                   + (IF i > 1 THEN (IF a[i - 1] >= 5 THEN 1 ELSE 0) ELSE bit)],
                1, m) : a \in {a0}} : TRUE

Double(a) == DoublePlus(a, 0)

Times5(a0) ==
  CHOOSE r \in
    {LET n == Len(a)
         m == IF n > 0 /\ a[n] >= 2 THEN n + 1 ELSE n
     IN  SubSeq([i \in 1..m |->
                   ((5 * Dig(a, i)) % 10)
                   + (IF i > 1 THEN a[i - 1] \div 2 ELSE 0)],
                1, m) : a \in {a0}} : TRUE

\* a * 2^k and a * 5^k, by halves so that no step is nested more than a few
\* levels deep
RECURSIVE TimesPow2(_, _)
TimesPow2(a, k) ==
  IF k <= 0 THEN a
  ELSE IF k = 1 THEN Double(a)
  ELSE CHOOSE r \in {TimesPow2(h, k - k \div 2) :
                        h \in {TimesPow2(a, k \div 2)}} : TRUE

RECURSIVE TimesPow5(_, _)
TimesPow5(a, k) ==
  IF k <= 0 THEN a
  ELSE IF k = 1 THEN Times5(a)
  ELSE CHOOSE r \in {TimesPow5(h, k - k \div 2) :
                        h \in {TimesPow5(a, k \div 2)}} : TRUE

TimesPow10(a, k) ==
  IF Len(a) = 0 \/ k <= 0 THEN a ELSE [i \in 1..k |-> 0] \o a

\* digits lo..hi of a + b + c, then the carry out of them
RECURSIVE AddRange(_, _, _, _, _)
AddRange(a, b, lo, hi, c) ==
  IF lo = hi
  THEN <<(Dig(a, lo) + Dig(b, lo) + c) % 10,
         (Dig(a, lo) + Dig(b, lo) + c) \div 10>>
  ELSE CHOOSE r \in
         {SubSeq(L, 1, Len(L) - 1)
          \o AddRange(a, b, (lo + hi) \div 2 + 1, hi, L[Len(L)]) :
            L \in {AddRange(a, b, lo, (lo + hi) \div 2, c)}} : TRUE

Add(a0, b0) ==
  CHOOSE r \in
    {IF Len(a) = 0 THEN b
     ELSE IF Len(b) = 0 THEN a
     ELSE Trim(AddRange(a, b, 1, Max(Len(a), Len(b)), 0)) :
       a \in {a0}, b \in {b0}} : TRUE

\* digits lo..hi of a - b - c, then the borrow out of them
RECURSIVE SubRange(_, _, _, _, _)
SubRange(a, b, lo, hi, c) ==
  IF lo = hi
  THEN <<(Dig(a, lo) - Dig(b, lo) - c) % 10,
         IF Dig(a, lo) - Dig(b, lo) - c < 0 THEN 1 ELSE 0>>
  ELSE CHOOSE r \in
         {SubSeq(L, 1, Len(L) - 1)
          \o SubRange(a, b, (lo + hi) \div 2 + 1, hi, L[Len(L)]) :
            L \in {SubRange(a, b, lo, (lo + hi) \div 2, c)}} : TRUE

\* a - b for a >= b
Sub(a0, b0) ==
  CHOOSE r \in
    {IF Len(b) = 0 THEN a
     ELSE CHOOSE t \in {Trim(SubSeq(d, 1, Len(d) - 1)) :
                          d \in {SubRange(a, b, 1, Len(a), 0)}} : TRUE :
       a \in {a0}, b \in {b0}} : TRUE

\* -1, 0 or 1 as digits lo..hi of a are below, equal to or above those of b
RECURSIVE CmpRange(_, _, _, _)
CmpRange(a, b, lo, hi) ==
  IF lo = hi
  THEN (IF a[lo] < b[lo] THEN 0 - 1 ELSE IF a[lo] > b[lo] THEN 1 ELSE 0)
  ELSE CHOOSE r \in
         {IF top # 0 THEN top ELSE CmpRange(a, b, lo, (lo + hi) \div 2) :
            top \in {CmpRange(a, b, (lo + hi) \div 2 + 1, hi)}} : TRUE

Cmp(a0, b0) ==
  CHOOSE r \in
    {IF Len(a) < Len(b) THEN 0 - 1
     ELSE IF Len(a) > Len(b) THEN 1
     ELSE IF Len(a) = 0 THEN 0
     ELSE CmpRange(a, b, 1, Len(a)) : a \in {a0}, b \in {b0}} : TRUE

(***************************************************************************)
(* Doubles.  A finite double other than 0 is m * 2^e with m a natural      *)
(* number below 2^53 and e from -1074 to 971; the double nearest to a      *)
(* decimal is found by long division, as the engine's parser finds it, and *)
(* ties go to the even m.                                                  *)
(***************************************************************************)
MANTISSA_BITS == 53
MIN_EXPONENT2 == 0 - 1074
MAX_EXPONENT2 == 971
TwoTo53 == TimesPow2(One, MANTISSA_BITS)
TwoTo52 == TimesPow2(One, MANTISSA_BITS - 1)

\* a power of 2 not above N/D, with at most 9 more to go, from the numbers
\* of digits of N and D (log2(10) = 3.3219...)
Log2Estimate(lenN, lenD) == ((lenN - lenD - 1) * 33219) \div 10000 - 1

\* D doubled until N/D < 2: <<D, e>> with 2^e <= N/D0 < 2^(e+1)
RECURSIVE Normalise2(_, _, _)
Normalise2(N, D, e) ==
  CHOOSE r \in
    {IF Cmp(N, D2) >= 0 THEN Normalise2(N, D2, e + 1) ELSE <<D, e>> :
       D2 \in {Double(D)}} : TRUE

\* k steps of the division of R by D in base 2: <<Q, R>>, the quotient so
\* far and twice the remainder
RECURSIVE Divide(_, _, _, _)
Divide(Q, R, D, k) ==
  IF k <= 0 THEN <<Q, R>>
  ELSE CHOOSE r \in
         {Divide(st[1], st[2], D, k - 1) :
            st \in {IF Cmp(R, D) >= 0
                    THEN <<DoublePlus(Q, 1), Double(Sub(R, D))>>
                    ELSE <<DoublePlus(Q, 0), Double(R)>>}} : TRUE

\* the quotient rounded to the nearest, a tie to the even one
RoundQuotient(QR, D) ==
  CHOOSE r \in
    {IF c > 0 \/ (c = 0 /\ Dig(QR[1], 1) % 2 = 1)
     THEN Add(QR[1], One) ELSE QR[1] : c \in {Cmp(QR[2], D)}} : TRUE

\* the double nearest to N/D, for N and D above 0 with 2^e <= N/D < 2^(e+1)
\* as [m, e], the number m * 2^e; m is 0 when N/D rounds to 0
DoubleOfQuotient(N, D, e) ==
  LET bits == IF e >= MIN_EXPONENT2 + MANTISSA_BITS - 1
              THEN MANTISSA_BITS ELSE e - MIN_EXPONENT2 + 1
  IN  IF bits < 0 THEN [m |-> <<>>, e |-> 0]
      ELSE IF bits = 0
      THEN (IF Cmp(N, D) = 0 THEN [m |-> <<>>, e |-> 0]
            ELSE [m |-> One, e |-> MIN_EXPONENT2])
      ELSE CHOOSE r \in
             {IF Cmp(m, TwoTo53) = 0
              THEN [m |-> TwoTo52, e |-> e - bits + 2]
              ELSE [m |-> m, e |-> e - bits + 1] :
                m \in {RoundQuotient(Divide(<<>>, N, D, bits), D)}} : TRUE

\* the double nearest to c / 10^s, for c above 0 (e above MAX_EXPONENT2
\* stands for a number too large for a double): the quotient N/D of two
\* natural numbers, one of them doubled as often as Log2Estimate says
NearestDouble(c, s) ==
  CHOOSE r \in
    {CHOOSE q \in
       {DoubleOfQuotient(N, De[1], De[2]) :
          De \in {Normalise2(N, TimesPow2(TimesPow10(One, s), e0), e0)}} :
         TRUE :
       e0 \in {Log2Estimate(Len(c) - Min(s, 0), 1 + Max(s, 0))},
       N \in {TimesPow2(TimesPow10(c, 0 - s),
                        0 - Log2Estimate(Len(c) - Min(s, 0),
                                         1 + Max(s, 0)))}} : TRUE

\* the double m * 2^e written out: <<c, s>>, the decimal c / 10^s
ExactDecimal(d) ==
  IF d.e >= 0 THEN <<TimesPow2(d.m, d.e), 0>>
  ELSE <<TimesPow5(d.m, 0 - d.e), 0 - d.e>>

\* V with its lowest z digits made 0
RoundDown(V, z) == [i \in 1..z |-> 0] \o SubSeq(V, z + 1, Len(V))

\* the decimal of fewest digits that lies between lo and hi (the two
\* included when closed) and, of these, the one nearest to V, the even one
\* on a tie: V rounded down or up to digits digits, for the first number of
\* digits where one of the two lies between
RECURSIVE Shortest(_, _, _, _, _)
Shortest(V, lo, hi, closed, digits) ==
  LET z == Len(V) - digits
  IN  IF z <= 0 THEN V
      ELSE CHOOSE r \in
             {LET inDown == IF closed THEN Cmp(down, lo) >= 0
                            ELSE Cmp(down, lo) > 0
                  inUp == IF closed THEN Cmp(up, hi) <= 0
                          ELSE Cmp(up, hi) < 0
                  restZero == \A i \in 1..(z - 1) : V[i] = 0
                  nearer == IF V[z] < 5 THEN down
                            ELSE IF V[z] > 5 \/ ~restZero THEN up
                            ELSE IF V[z + 1] % 2 = 0 THEN down
                            ELSE up
              IN  IF inDown /\ inUp THEN nearer
                  ELSE IF inDown THEN down
                  ELSE IF inUp THEN up
                  ELSE Shortest(V, lo, hi, closed, digits + 1) :
                down \in {RoundDown(V, z)},
                up \in {Add(RoundDown(V, z), TimesPow10(One, z))}} : TRUE

\* the number of zeros at the low end of a, which is not 0
LowZeros(a) ==
  CHOOSE k \in 0..(Len(a) - 1) :
    a[k + 1] # 0 /\ \A j \in 1..k : a[j] = 0

\* Number::toString: the shortest decimal that the double m * 2^e is the
\* nearest double to, as <<c, s>>, the decimal c / 10^s with c not a
\* multiple of 10. The doubles around it are one unit of m away, but the
\* one below 2^52 * 2^e is half a unit away. All numbers are in units of
\* 2^(e-2).
ShortestDecimal(d) ==
  CHOOSE r \in
    {CHOOSE q \in
       {<<SubSeq(c, LowZeros(c) + 1, Len(c)),
          (IF d.e >= 2 THEN 0 ELSE 2 - d.e) - LowZeros(c)>> :
          c \in {Shortest(V, 
                          Sub(V, IF Cmp(d.m, TwoTo52) = 0 /\ d.e > MIN_EXPONENT2
                                 THEN U ELSE Double(U)),
                          Add(V, Double(U)),
                          Dig(d.m, 1) % 2 = 0, 1)}} : TRUE :
       U \in {IF d.e >= 2 THEN TimesPow2(One, d.e - 2)
              ELSE TimesPow5(One, 2 - d.e)},
       V \in {IF d.e >= 2 THEN TimesPow2(d.m, d.e)
              ELSE TimesPow5(Double(Double(d.m)), 2 - d.e)}} : TRUE

(***************************************************************************)
(* Numbers as records.                                                     *)
(***************************************************************************)
\* the digits of m >= 0, and the value of the digits lo..hi of a
RECURSIVE DigitsOfInt(_)
DigitsOfInt(m) == IF m = 0 THEN <<>> ELSE <<m % 10>> \o DigitsOfInt(m \div 10)

RECURSIVE IntOfDigits(_, _, _)
IntOfDigits(a, lo, hi) ==
  IF lo > hi THEN 0 ELSE Dig(a, lo) + 10 * IntOfDigits(a, lo + 1, hi)

\* the unit of h
HighUnit == 1000000000

\* the record of c / 10^s, negated when neg, for digits c above 0 that do
\* not end in 0
FromDigits(neg, c, s) ==
  LET sign == IF neg THEN 0 - 1 ELSE 1
  IN  IF s <= 0 /\ Len(c) - s <= 9
      THEN [t |-> "num", s |-> 0, h |-> 0,
            n |-> sign * IntOfDigits(c, 1, Len(c)) * Pow10(0 - s)]
      ELSE [t |-> "num", s |-> s, h |-> IntOfDigits(c, 10, Len(c)),
            n |-> sign * IntOfDigits(c, 1, 9)]

\* the digits of a finite number v, which is these digits / 10^v.s
ToDigits(v) ==
  IF v.h = 0 THEN DigitsOfInt(Abs(v.n))
  ELSE [i \in 1..9 |-> (Abs(v.n) \div Pow10(i - 1)) % 10] \o DigitsOfInt(v.h)

\* a double as a number
FromDouble(neg, d) ==
  IF d.e > MAX_EXPONENT2 THEN (IF neg THEN NegInfinity ELSE Infinity)
  ELSE IF Len(d.m) = 0 THEN Zero
  ELSE CHOOSE r \in {FromDigits(neg, cs[1], cs[2]) :
                       cs \in {ShortestDecimal(d)}} : TRUE

\* the powers of 10 around the doubles: every double is below 10^309, a
\* number below 10^-324 rounds to 0, and from 10^-307 on a double has all
\* of its 53 bits
MAX_EXPONENT10 == 308
MIN_EXPONENT10 == 0 - 324
MIN_NORMAL_EXPONENT10 == 0 - 307
\* the digits a decimal keeps in every double
EXACT_DIGITS == 15

\* the number mantissa / 10^scale, negated when neg, as a double holds it:
\* rounded to the nearest double. A decimal of up to 15 digits that lies
\* where doubles have 53 bits is the shortest decimal of its double.
DecimalValue(neg, mantissa, scale) ==
  CHOOSE r \in
    {IF Len(c) = 0 THEN Zero
     \* the number lies in [10^(Len(c) - scale - 1), 10^(Len(c) - scale))
     ELSE IF Len(c) - scale > MAX_EXPONENT10 + 1
     THEN (IF neg THEN NegInfinity ELSE Infinity)
     ELSE IF Len(c) - scale <= MIN_EXPONENT10 THEN Zero
     ELSE CHOOSE q \in
            {IF /\ Len(c) - z <= EXACT_DIGITS
                /\ Len(c) - scale > MIN_NORMAL_EXPONENT10
                /\ Len(c) - scale <= MAX_EXPONENT10
             THEN FromDigits(neg, SubSeq(c, z + 1, Len(c)), scale - z)
             ELSE FromDouble(neg, NearestDouble(SubSeq(c, z + 1, Len(c)),
                                                scale - z)) :
               z \in {LowZeros(c)}} : TRUE :
       c \in {mantissa}} : TRUE

\* the decimal m / 10^scale as a number
Decimal(m, scale) ==
  IF scale = 0 /\ Abs(m) < HighUnit
  THEN [t |-> "num", n |-> m, s |-> 0, h |-> 0]
  ELSE DecimalValue(m < 0, DigitsOfInt(Abs(m)), scale)

Num(tenths) == Decimal(tenths, 1)

\* the integer k, below 10^9 in absolute value, as a number
Int2Num(k) == [t |-> "num", n |-> k, s |-> 0, h |-> 0]

\* x + k for a finite number x and an integer k other than 0, as the engine
\* adds: the sum of the double and k, rounded to the nearest double. The
\* sum is exact for an integer below 10^9 and for a fraction below 10^9
\* that is a multiple of a power of 1/2. Adding 1 or -1 leaves a number
\* from 10^17 on as it is and gives k for a number below 10^-17.
PlusInt(x0, k) ==
  CHOOSE r \in
    {\* x lies in [10^(p - 1), 10^p) for p = Len(ToDigits(x)) - x.s
     IF Abs(k) = 1 /\ (x.h # 0 \/ x.s < 0) /\ Len(ToDigits(x)) - x.s > 17
     THEN x
     ELSE CHOOSE q \in
            {DecimalValue(sum[1], sum[2], sum[3]) :
               sum \in
                 {IF x.h = 0 /\ x.s = 0
                  THEN <<x.n + k < 0, DigitsOfInt(Abs(x.n + k)), 0>>
                  ELSE IF /\ x.h = 0 /\ x.s > 0 /\ x.s <= 9
                          /\ x.n % Pow5(x.s) = 0 /\ Abs(k) <= Pow10(9 - x.s)
                  THEN <<x.n + k * Pow10(x.s) < 0,
                         DigitsOfInt(Abs(x.n + k * Pow10(x.s))), x.s>>
                  ELSE IF Abs(k) = 1 /\ Len(ToDigits(x)) - x.s <= 0 - 17
                  THEN <<k < 0, One, 0>>
                  ELSE CHOOSE t \in
                         {IF (x.n < 0) = (k < 0)
                          THEN <<k < 0,
                                 Add(ex[1], TimesPow10(DigitsOfInt(Abs(k)),
                                                       ex[2])), ex[2]>>
                          ELSE IF Cmp(ex[1], TimesPow10(DigitsOfInt(Abs(k)),
                                                        ex[2])) >= 0
                          THEN <<x.n < 0,
                                 Sub(ex[1], TimesPow10(DigitsOfInt(Abs(k)),
                                                       ex[2])), ex[2]>>
                          ELSE <<k < 0,
                                 Sub(TimesPow10(DigitsOfInt(Abs(k)), ex[2]),
                                     ex[1]), ex[2]>> :
                            ex \in {ExactDecimal(NearestDouble(ToDigits(x),
                                                               x.s))}} :
                           TRUE}} : TRUE :
       x \in {x0}} : TRUE

\* Math.floor of a finite number; for a number of 10^9 or more, which is
\* above every number the program compares with, a number as large
LargeMagnitude == 1000000000
Floor(v) ==
  IF v.h = 0 /\ v.s = 0 THEN v.n
  ELSE IF v.h = 0 /\ v.s > 0 /\ v.s <= 9 THEN v.n \div Pow10(v.s)
  ELSE CHOOSE r \in
         {LET \* the integer part of |v|, which is no integer and below 10^9
              whole == IF v.s >= 9 THEN v.h \div Pow10(v.s - 9)
                       ELSE v.h * Pow10(9 - v.s) + Abs(v.n) \div Pow10(v.s)
          IN  IF digits - v.s > 9
              THEN (IF v.n < 0 THEN 0 - LargeMagnitude ELSE LargeMagnitude)
              ELSE IF digits - v.s <= 0 THEN (IF v.n < 0 THEN 0 - 1 ELSE 0)
              ELSE IF v.n < 0 THEN 0 - whole - 1
              ELSE whole :
            digits \in {IF v.h = 0 THEN NumDigits(Abs(v.n))
                        ELSE 9 + NumDigits(v.h)}} : TRUE

(***************************************************************************)
(* parseFloat: leading white space, an optional sign, then "Infinity" or   *)
(* the longest prefix that is a decimal literal (digits, a point, digits,  *)
(* an exponent part); NaN when there is none.  Text after the prefix is    *)
(* ignored ("12kg" is 12).  The result is the double nearest to the        *)
(* literal: Infinity from 2^1024 - 2^970 on (1.7976931348623158e308), 0 up *)
(* to 2^-1075 (2.47e-324).                                                 *)
(***************************************************************************)
DigitChars == <<"0", "1", "2", "3", "4", "5", "6", "7", "8", "9">>
IsDigit(c) == \E i \in 1..Len(DigitChars) : DigitChars[i] = c
DigitVal(c) == (CHOOSE i \in 1..Len(DigitChars) : DigitChars[i] = c) - 1

\* the white space parseFloat skips (StrWhiteSpaceChar): space, tab, line
\* feed, carriage return, form feed and vertical tab, written as they are,
\* and the no-break space, the byte order mark and the space and line
\* separators, each as one character named by its code point
NamedSpaces ==
  {"U+00A0", "U+1680", "U+2000", "U+2001", "U+2002", "U+2003", "U+2004",
   "U+2005", "U+2006", "U+2007", "U+2008", "U+2009", "U+200A", "U+2028",
   "U+2029", "U+202F", "U+205F", "U+3000", "U+FEFF"}
WrittenSpaces == {" ", "\t", "\n", "\r", "\f", ""}
WhiteSpace == WrittenSpaces \cup NamedSpaces
InfinityChars == <<"I", "n", "f", "i", "n", "i", "t", "y">>

IsWhiteSpace(c) == c \in WhiteSpace

\* the first position from i on where s has no character of the class ok
SpanEnd(s, i, ok(_)) ==
  CHOOSE j \in i..(Len(s) + 1) :
    /\ j = Len(s) + 1 \/ ~ok(s[j])
    /\ \A k \in i..(j - 1) : ok(s[k])

SkipWhite(s, i) == SpanEnd(s, i, IsWhiteSpace)

\* the characters of word stand in s from position i on
HasPrefixAt(s, i, word) ==
  /\ i + Len(word) - 1 <= Len(s)
  /\ \A j \in 1..Len(word) : s[i + j - 1] = word[j]

\* an exponent of more than 9 digits moves every literal out of the
\* doubles' range, as this one does
EXPONENT_CAP == 1000000000
IsZeroChar(c) == c = "0"

\* the value of the digits of s from position i to before position j (0
\* when there is none), read as far as EXPONENT_CAP
ScanDigits(s, i, j) ==
  CHOOSE r \in
    {IF j - first > 9 THEN EXPONENT_CAP
     ELSE IntOfDigits([k \in 1..(j - first) |-> DigitVal(s[j - k])],
                      1, j - first) :
       first \in {SpanEnd(s, i, IsZeroChar)}} : TRUE

\* the digits that stand in s from position i on, as a number
DigitsAt(s, i) ==
  CHOOSE r \in {ScanDigits(s, i, j) : j \in {SpanEnd(s, i, IsDigit)}} : TRUE

\* the exponent part at position i of s ("e" or "E", an optional sign,
\* digits), 0 when there is none: an "e" with no digit after it is not part
\* of the number
ExponentAt(s, i) ==
  IF ~(i <= Len(s) /\ s[i] \in {"e", "E"}) THEN 0
  ELSE IF i + 1 <= Len(s) /\ s[i + 1] = "-" THEN 0 - DigitsAt(s, i + 2)
  ELSE IF i + 1 <= Len(s) /\ s[i + 1] = "+" THEN DigitsAt(s, i + 2)
  ELSE DigitsAt(s, i + 1)

\* the literal whose digits end before position i, with the exponent part
\* at i applied
ExponentPart(s, i, neg, mantissa, fracDigits) ==
  DecimalValue(neg, mantissa, fracDigits - ExponentAt(s, i))

\* digits, at most one point, digits, from position i on: <<intEnd,
\* fracEnd>>, the positions after the digits before the point and after
\* the digits of the literal
LiteralEnds(s, i) ==
  CHOOSE r \in
    {<<intEnd, IF intEnd <= Len(s) /\ s[intEnd] = "."
               THEN SpanEnd(s, intEnd + 1, IsDigit) ELSE intEnd>> :
       intEnd \in {SpanEnd(s, i, IsDigit)}} : TRUE

\* the digits of such a literal without the point, the last one first
MantissaDigits(s, i, intEnd, fracEnd) ==
  Trim([k \in 1..(fracEnd - i - (IF fracEnd > intEnd THEN 1 ELSE 0)) |->
          DigitVal(s[IF fracEnd - k > intEnd THEN fracEnd - k
                     ELSE IF fracEnd > intEnd THEN fracEnd - k - 1
                     ELSE intEnd - k])])

\* the literal at position i; a point with no digit on either side is no
\* number
ScanMantissa(s, i, neg) ==
  CHOOSE r \in
    {IF ends[2] - i - (IF ends[2] > ends[1] THEN 1 ELSE 0) = 0 THEN NaN
     ELSE ExponentPart(s, ends[2], neg,
                       MantissaDigits(s, i, ends[1], ends[2]),
                       IF ends[2] > ends[1] THEN ends[2] - ends[1] - 1
                       ELSE 0) :
       ends \in {LiteralEnds(s, i)}} : TRUE

parseFloat(s) ==
  LET i0 == SkipWhite(s, 1)
      neg == i0 <= Len(s) /\ s[i0] = "-"
      i1 == IF i0 <= Len(s) /\ s[i0] \in {"-", "+"} THEN i0 + 1 ELSE i0
  IN  IF HasPrefixAt(s, i1, InfinityChars)
      THEN (IF neg THEN NegInfinity ELSE Infinity)
      ELSE ScanMantissa(s, i1, neg)

\* isNaN(value), value < 0, value >= k and value <= k for a parsed number
\* and an integer k
isNaN(v) == v.t = "nan"
LessThanZero(v) == v.t = "ninf" \/ (v.t = "num" /\ v.n < 0)
AtLeast(v, k) == v.t = "inf" \/ (v.t = "num" /\ Floor(v) >= k)
AtMost(v, k) ==
  \/ v.t = "ninf"
  \/ v.t = "num" /\ (Floor(v) < k \/ (Floor(v) = k /\ v.s <= 0))

(***************************************************************************)
(* The habit rules and the scoring functions.                              *)
(***************************************************************************)
Habits == <<"sleep", "water", "workout", "study", "food">>
HabitSet == {Habits[i] : i \in 1..Len(Habits)}

SLEEP_MIN == 7
WATER_MIN == 8
WORKOUT_MIN == 30
STUDY_MIN == 60
FOOD_MIN == 2000
FOOD_MAX == 2500
POINTS_PER_HABIT == 20
MAX_DAY == 100

HABIT_RULES ==
  [sleep |-> [min |-> SLEEP_MIN],
   water |-> [min |-> WATER_MIN],
   workout |-> [min |-> WORKOUT_MIN],
   study |-> [min |-> STUDY_MIN],
   food |-> [min |-> FOOD_MIN, max |-> FOOD_MAX]]

\* isHabitCompleted without the upper limit of food
isHabitCompleted_NoMax(habit, value) ==
  IF value = Null THEN FALSE
  ELSE IF habit \notin DOMAIN HABIT_RULES THEN FALSE
  ELSE AtLeast(value, HABIT_RULES[habit].min)

isHabitCompleted(habit, value) ==
  IF value = Null THEN FALSE
  ELSE IF habit \notin DOMAIN HABIT_RULES THEN FALSE
  ELSE IF habit = "food"
  THEN AtLeast(value, HABIT_RULES[habit].min)
       /\ AtMost(value, HABIT_RULES[habit].max)
  ELSE AtLeast(value, HABIT_RULES[habit].min)

calculateHabitScore(habit, value) ==
  IF isHabitCompleted(habit, value) THEN POINTS_PER_HABIT ELSE 0

RECURSIVE SumScores(_, _)
SumScores(dayData, i) ==
  IF i > Len(Habits) THEN 0
  ELSE calculateHabitScore(Habits[i], dayData[Habits[i]])
       + SumScores(dayData, i + 1)

calculateDayScore(dayData) == SumScores(dayData, 1)

\* areAllHabitsCompleted looking at the first four habits only
areAllHabitsCompleted_FirstFour(dayData) ==
  \A i \in 1..(Len(Habits) - 1) : dayData.completedHabits[Habits[i]] = TRUE

areAllHabitsCompleted(dayData) ==
  \A i \in 1..Len(Habits) : dayData.completedHabits[Habits[i]] = TRUE

(***************************************************************************)
(* The data model: a day's record, appData, and what localStorage holds.   *)
(***************************************************************************)
NewDayData ==
  [sleep |-> Null, water |-> Null, workout |-> Null, study |-> Null,
   food |-> Null,
   completedHabits |-> [h \in HabitSet |-> FALSE],
   score |-> 0,
   completed |-> FALSE]

NoDays == [d \in {} |-> NewDayData]

DefaultAppData ==
  [currentDay |-> 1, streak |-> 0, days |-> NoDays, whyStarted |-> ""]

\* JSON.stringify writes Infinity, -Infinity and NaN as null
JSONNumber(v) == IF v.t \in {"inf", "ninf", "nan"} THEN Null ELSE v

JSONDay(dayData) ==
  [dayData EXCEPT !.sleep = JSONNumber(@), !.water = JSONNumber(@),
                  !.workout = JSONNumber(@), !.study = JSONNumber(@),
                  !.food = JSONNumber(@)]

\* the value JSON.parse gives back for JSON.stringify(app)
JSONstringify(app) ==
  [app EXCEPT !.days = [d \in DOMAIN app.days |-> JSONDay(app.days[d])]]

\* localStorage: the item "betterMe", absent on a first run
NoItem == [present |-> FALSE, data |-> DefaultAppData]
saveData(app) == [present |-> TRUE, data |-> JSONstringify(app)]

\* line 23: the stored object, or the default one when nothing is stored
LoadAppData(store) == IF store.present THEN store.data ELSE DefaultAppData

\* getCurrentDayData creates the current day's record on first access
getCurrentDayData(app) ==
  IF app.currentDay \in DOMAIN app.days THEN app
  ELSE [app EXCEPT !.days =
          [d \in DOMAIN app.days \cup {app.currentDay} |->
             IF d = app.currentDay THEN NewDayData ELSE app.days[d]]]

(***************************************************************************)
(* The handlers, as functions of appData and the stored item.              *)
(***************************************************************************)
\* the alerts of saveHabit, named as the results of the operation
InvalidInput == "InvalidInput"
DayLocked == "DayLocked"
Saved == "ok"
\* what the other handlers report
Done == "done"
Restarted == "restarted"
Declined == "declined"

\* line 162: the input is refused
InvalidValue(value) == isNaN(value) \/ LessThanZero(value)

\* saveHabit without the check of line 171
IsLocked_Never(dayData) == FALSE

\* line 171: the current day is locked
IsLocked(dayData) == dayData.completed

\* the increment without the condition of line 365
NextDay_NoLimit(currentDay) == currentDay + 1

\* the increment of line 366 going two days ahead
NextDay_SkipOne(currentDay) ==
  IF currentDay < MAX_DAY - 1 THEN currentDay + 2 ELSE MAX_DAY

\* lines 365-367: the day after currentDay
NextDay(currentDay) ==
  IF currentDay < MAX_DAY THEN currentDay + 1 ELSE currentDay

\* completeCurrentDay up to its saveData
completeCurrentDay(app) ==
  LET a1 == getCurrentDayData(app)
      day == a1.currentDay
  IN  [a1 EXCEPT !.days[day].completed = TRUE,
                 !.streak = @ + 1,
                 !.currentDay = NextDay(@)]

\* lines 176-184 with a completedHabits entry that is only ever set
RecordValue_KeepCompleted(dayData, habit, value) ==
  LET d1 == [dayData EXCEPT ![habit] = value]
      d2 == [d1 EXCEPT !.completedHabits[habit] =
                          @ \/ isHabitCompleted(habit, value)]
  IN  [d2 EXCEPT !.score = calculateDayScore(d2)]

\* lines 176-184 writing into a new record instead of the day's record
RecordValue_IntoNewRecord(dayData, habit, value) ==
  LET d1 == [NewDayData EXCEPT ![habit] = value]
      d2 == [d1 EXCEPT !.completedHabits[habit] =
                          isHabitCompleted(habit, value)]
  IN  [d2 EXCEPT !.score = calculateDayScore(d2)]

\* lines 176-184: the record with the value saved and its derived fields
RecordValue(dayData, habit, value) ==
  LET d1 == [dayData EXCEPT ![habit] = value]
      d2 == [d1 EXCEPT !.completedHabits[habit] =
                          isHabitCompleted(habit, value)]
  IN  [d2 EXCEPT !.score = calculateDayScore(d2)]

\* saveHabit: the new appData and stored item, the result, and whether the
\* 1000 ms callback of completeCurrentDay was scheduled
saveHabit(app, store, habit, raw) ==
  CHOOSE r \in
    {LET a1 == getCurrentDayData(app)
          day == a1.currentDay
          dayData == a1.days[day]
          a2 == [a1 EXCEPT !.days[day] = RecordValue(dayData, habit, value)]
          a3 == completeCurrentDay(a2)
      IN  IF InvalidValue(value)
          THEN [appData |-> app, storage |-> store, result |-> InvalidInput,
                scheduled |-> FALSE]
          ELSE IF IsLocked(dayData)
          THEN [appData |-> a1, storage |-> store, result |-> DayLocked,
                scheduled |-> FALSE]
          ELSE IF areAllHabitsCompleted(a2.days[day])
          THEN [appData |-> a3, storage |-> saveData(a3), result |-> Saved,
                scheduled |-> TRUE]
          ELSE [appData |-> a2, storage |-> saveData(a2), result |-> Saved,
                scheduled |-> FALSE] :
       value \in {parseFloat(raw)}} : TRUE

\* updateStreak's loop, lines 393-402, started at day: its pass i (from 0)
\* looks at the day day - i and breaks when that day's record is missing or
\* not completed; the streak is the number of passes before the break, or
\* all of them when the loop runs down to day 1
CountBack(app, day) ==
  LET breaks == {i \in 0..(day - 1) :
                   ~(/\ day - i \in DOMAIN app.days
                     /\ app.days[day - i].completed)}
  IN  IF breaks = {} THEN (IF day >= 1 THEN day ELSE 0)
      ELSE CHOOSE i \in breaks : \A j \in breaks : i <= j

\* updateStreak counting back from the day before currentDay
updateStreak_FromDayBefore(app) ==
  [app EXCEPT !.streak = CountBack(app, app.currentDay - 1)]

updateStreak(app) == [app EXCEPT !.streak = CountBack(app, app.currentDay)]

\* loadCurrentDayUI reads the current day through getCurrentDayData
loadCurrentDayUI(app) == getCurrentDayData(app)

\* init, lines 646-654
Normalise(app) ==
  [app EXCEPT !.currentDay = IF @ < 1 THEN 1 ELSE @,
              !.streak = IF @ < 0 THEN 0 ELSE @]

\* init: appData after it; its last statement is saveData
init(app) == loadCurrentDayUI(updateStreak(Normalise(app)))

\* restartChallenge, line 712
ChallengeCompleted(app) ==
  /\ app.currentDay >= MAX_DAY
  /\ MAX_DAY \in DOMAIN app.days
  /\ app.days[MAX_DAY].completed = TRUE

\* lines 743-748 without the reset of the streak
ResetAppData_KeepStreak(app, keepMotivation) ==
  [currentDay |-> 1, streak |-> app.streak, days |-> NoDays,
   whyStarted |-> IF keepMotivation THEN app.whyStarted ELSE ""]

\* lines 743-748
ResetAppData(app, keepMotivation) ==
  [currentDay |-> 1, streak |-> 0, days |-> NoDays,
   whyStarted |-> IF keepMotivation THEN app.whyStarted ELSE ""]

\* restartChallenge asking for confirmation in every state
restartChallenge_AlwaysAsk(app, store, answer1, answer2) ==
  LET confirmed == answer1
      keepMotivation == IF confirmed THEN answer2 ELSE TRUE
      a1 == ResetAppData(app, keepMotivation)
  IN  IF confirmed
      THEN [appData |-> a1, storage |-> saveData(a1), proceeded |-> TRUE,
            prompted |-> TRUE, keepMotivation |-> keepMotivation]
      ELSE [appData |-> app, storage |-> store, proceeded |-> FALSE,
            prompted |-> TRUE, keepMotivation |-> keepMotivation]

\* restartChallenge with the user's answers to the two confirm() dialogs,
\* which are shown only when the challenge is completed
restartChallenge(app, store, answer1, answer2) ==
  LET isCompleted == ChallengeCompleted(app)
      confirmed == IF isCompleted THEN answer1 ELSE TRUE
      keepMotivation == IF isCompleted /\ confirmed THEN answer2 ELSE TRUE
      a1 == ResetAppData(app, keepMotivation)
  IN  IF confirmed
      THEN [appData |-> a1, storage |-> saveData(a1), proceeded |-> TRUE,
            prompted |-> isCompleted, keepMotivation |-> keepMotivation]
      ELSE [appData |-> app, storage |-> store, proceeded |-> FALSE,
            prompted |-> isCompleted, keepMotivation |-> keepMotivation]

\* the callback completeCurrentDay schedules (lines 376-382)
completeCallback(app) == loadCurrentDayUI(app)

\* the callback restartChallenge schedules (lines 757-792); it saves
restartCallback(app) == updateStreak(loadCurrentDayUI(app))

(***************************************************************************)
(* The state machine.                                                      *)
(***************************************************************************)
VARIABLES
  appData,          \* the in-memory object
  storage,          \* localStorage's item "betterMe"
  pendingComplete,  \* scheduled callbacks of completeCurrentDay, not yet run
  pendingRestart,   \* scheduled callbacks of restartChallenge, not yet run
  last,             \* the operation that led to this state, and its result
  initPending,      \* the script has run, init waits for DOMContentLoaded
  fnHabit, fnValue, fnResult  \* an application of isHabitCompleted

vars == <<appData, storage, pendingComplete, pendingRestart, last,
          initPending, fnHabit, fnValue, fnResult>>

\* bounds of the model: habits are entered on the first MaxEarlyDay days and
\* on the last day, with at most MaxTimers callbacks of a kind pending
MaxEarlyDay == 1
MaxTimers == 1
Followed(day) == day <= MaxEarlyDay \/ day = MAX_DAY

\* the texts typed into the habit inputs
RawInputs ==
  [sleep |-> {<<"8">>, <<"\t", "8">>, InfinityChars, <<"a", "b", "c">>},
   water |-> {<<"8">>, <<"-", "1">>},
   workout |-> {<<"3", "0">>, <<"3", "e", "1">>, <<>>},
   study |-> {<<"6", "0">>, <<"-">> \o InfinityChars},
   food |-> {<<"2", "2", "0", "0">>, <<"2", "5", "0", "0", ".", "5">>,
             <<"-", "0", ".", "5">>}]
WhyTexts == {"", "X"}

\* Scenario B's inputs, one that meets the rule for each habit
GoodRaw ==
  [sleep |-> <<"8">>, water |-> <<"8">>, workout |-> <<"3", "0">>,
   study |-> <<"6", "0">>, food |-> <<"2", "2", "0", "0">>]

\* last: the handler that ran last, what it reported, and a note: for a
\* saved habit whether the habit already had a value that day ("overwrite")
\* or not ("first"), for a restart whether the motivation text was kept
Note(name, result, note) == [op |-> name, result |-> result, note |-> note]
Op(name, result) == Note(name, result, "")

\* the first page load, with nothing stored
FreshState ==
  LET app == init(LoadAppData(NoItem))
  IN  [appData |-> app, storage |-> saveData(app)]

RECURSIVE EnterAll(_, _)
EnterAll(sys, i) ==
  IF i > Len(Habits) THEN sys
  ELSE CHOOSE next \in
         {EnterAll([appData |-> r.appData, storage |-> r.storage], i + 1) :
            r \in {saveHabit(sys.appData, sys.storage, Habits[i],
                             GoodRaw[Habits[i]])}} : TRUE

\* the record of day 1 after Scenario B
GoodDay == EnterAll(FreshState, 1).appData.days[1]

\* the state right after the first k days were completed with Scenario B's
\* inputs, each day's callback run before the next day's entries
DaysDone(k) ==
  IF k = 0 THEN FreshState
  ELSE LET app == [currentDay |-> NextDay(k), streak |-> k,
                   days |-> [d \in 1..k |-> GoodDay], whyStarted |-> ""]
       IN  [appData |-> app, storage |-> saveData(app)]

\* the last day reached that way, its callback run and every habit but the
\* first entered
LastDayState ==
  LET sys == DaysDone(MAX_DAY - 1)
  IN  EnterAll([sys EXCEPT !.appData = completeCallback(@)], 2)

\* the script has run (lines 23-28 and 797-798)
ScriptRun == "script"

\* the runs start on a first page load with nothing stored, before init, or
\* on the last day
Init ==
  /\ \/ /\ appData = LoadAppData(NoItem)
        /\ storage = NoItem
        /\ last = Op(ScriptRun, Done)
        /\ initPending = TRUE
     \/ /\ appData = LastDayState.appData
        /\ storage = LastDayState.storage
        /\ last = Note("saveHabit", Saved, "first")
        /\ initPending = FALSE
  /\ pendingComplete = 0
  /\ pendingRestart = 0
  /\ fnHabit = "sleep"
  /\ fnValue = Null
  /\ fnResult = "none"

Scoring == <<fnHabit, fnValue, fnResult>>

\* the current day has a value for the habit
HasValue(app, habit) ==
  /\ app.currentDay \in DOMAIN app.days
  /\ app.days[app.currentDay][habit] # Null

SaveHabit(habit, raw) ==
  LET r == saveHabit(appData, storage, habit, raw)
  IN  /\ Followed(appData.currentDay)
      /\ r.scheduled => pendingComplete < MaxTimers
      /\ appData' = r.appData
      /\ storage' = r.storage
      /\ pendingComplete' = IF r.scheduled THEN pendingComplete + 1
                            ELSE pendingComplete
      /\ last' = Note("saveHabit", r.result,
                       IF r.result # Saved THEN ""
                       ELSE IF HasValue(appData, habit) THEN "overwrite"
                       ELSE "first")
      /\ UNCHANGED <<pendingRestart, initPending, Scoring>>

SaveWhy(text) ==
  /\ appData' = [appData EXCEPT !.whyStarted = text]
  /\ storage' = saveData(appData')
  /\ last' = Op("saveWhy", Done)
  /\ UNCHANGED <<pendingComplete, pendingRestart, initPending, Scoring>>

RestartChallenge(answer1, answer2) ==
  LET r == restartChallenge(appData, storage, answer1, answer2)
  IN  /\ r.proceeded => pendingRestart < MaxTimers
      /\ appData' = r.appData
      /\ storage' = r.storage
      /\ pendingRestart' = IF r.proceeded THEN pendingRestart + 1
                           ELSE pendingRestart
      /\ last' = Note("restartChallenge",
                       IF r.proceeded THEN Restarted ELSE Declined,
                       IF ~r.proceeded THEN ""
                       ELSE IF r.keepMotivation THEN "kept" ELSE "cleared")
      /\ UNCHANGED <<pendingComplete, initPending, Scoring>>

\* the 1000 ms callback of completeCurrentDay runs
CompleteCallback ==
  /\ pendingComplete > 0
  /\ pendingComplete' = pendingComplete - 1
  /\ appData' = completeCallback(appData)
  /\ last' = Op("completeCallback", Done)
  /\ UNCHANGED <<storage, pendingRestart, initPending, Scoring>>

\* the 500 ms callback of restartChallenge runs
RestartCallback ==
  /\ pendingRestart > 0
  /\ pendingRestart' = pendingRestart - 1
  /\ appData' = restartCallback(appData)
  /\ storage' = saveData(appData')
  /\ last' = Op("restartCallback", Done)
  /\ UNCHANGED <<pendingComplete, initPending, Scoring>>

\* the page is loaded again: pending callbacks are gone, the script reads
\* appData from the stored item (line 23) and registers init for the event
\* DOMContentLoaded (line 798)
Reload ==
  /\ appData' = LoadAppData(storage)
  /\ pendingComplete' = 0
  /\ pendingRestart' = 0
  /\ initPending' = TRUE
  /\ last' = Op("reload", Done)
  /\ UNCHANGED <<storage, Scoring>>

\* the document is ready: init runs (at once after the script when the
\* document was ready before it, line 800)
DOMContentLoaded ==
  /\ initPending
  /\ appData' = init(appData)
  /\ storage' = saveData(appData')
  /\ initPending' = FALSE
  /\ last' = Op("init", Done)
  /\ UNCHANGED <<pendingComplete, pendingRestart, Scoring>>

Next ==
  \/ \E habit \in HabitSet :
       \E raw \in RawInputs[habit] : SaveHabit(habit, raw)
  \/ \E text \in WhyTexts : SaveWhy(text)
  \/ \E answer1 \in BOOLEAN, answer2 \in BOOLEAN :
       RestartChallenge(answer1, answer2)
  \/ CompleteCallback
  \/ RestartCallback
  \/ Reload
  \/ DOMContentLoaded

Spec == Init /\ [][Next]_vars

(***************************************************************************)
(* The scoring functions on their own: Init draws a habit and a value,     *)
(* the one action applies isHabitCompleted to them.                        *)
(***************************************************************************)
ScoreRaws ==
  {<<"0">>, <<"6", ".", "9">>, <<"7">>, <<"7", ".", "5">>, <<"8">>,
   <<"2", "9", ".", "9">>, <<"3", "0">>, <<"5", "9">>, <<"6", "0">>,
   <<"1", "9", "9", "9", ".", "9">>, <<"2", "0", "0", "0">>,
   <<"2", "2", "0", "0">>, <<"2", "5", "0", "0">>,
   <<"2", "5", "0", "0", ".", "1">>, <<"2", "6", "0", "0">>, InfinityChars,
   <<"6", ".", "9", "9">>, <<"\t", "7">>, <<"\n", "6">>, <<"7", "e", "0">>,
   <<"6", "0", "0", "e", "-", "1">>, <<"2", "e", "3">>,
   <<"1", "9", "9", "9", ".", "9", "9">>,
   <<"2", "5", "0", "0", ".", "0", "5">>, <<"1", "e", "9", "9", "9">>,
   <<"U+2003", "7">>, <<"U+00A0", "7">>, <<"U+FEFF", "6">>,
   <<"U+00E9", "8">>, <<"U+200B", "8">>, <<"2", "e", "3", "0", "8">>,
   <<"1", ".", "7", "e", "3", "0", "8">>, <<"3", "e", "-", "3", "2", "4">>,
   <<"2", "e", "-", "3", "2", "4">>,
   <<"7", ".", "0", "0", "0", "0", "0", "0", "0", "0", "0", "0", "0", "0",
     "0", "0", "0", "1">>,
   <<"6", ".", "9", "9", "9", "9", "9", "9", "9", "9", "9", "9", "9", "9",
     "9", "9", "9", "9", "9">>}
ScoreValues == {parseFloat(raw) : raw \in ScoreRaws} \cup {Null}

InitScoring ==
  /\ appData = FreshState.appData
  /\ storage = FreshState.storage
  /\ last = Op("init", Done)
  /\ initPending = FALSE
  /\ pendingComplete = 0
  /\ pendingRestart = 0
  /\ fnHabit \in HabitSet
  /\ fnValue \in ScoreValues
  /\ fnResult = "none"

ApplyIsHabitCompleted ==
  /\ fnResult = "none"
  /\ fnResult' = IF isHabitCompleted(fnHabit, fnValue) THEN "true" ELSE "false"
  /\ UNCHANGED <<appData, storage, pendingComplete, pendingRestart, last,
                 initPending, fnHabit, fnValue>>

NextScoring == ApplyIsHabitCompleted

SpecScoring == InitScoring /\ [][NextScoring]_vars

(***************************************************************************)
(* The claims.                                                             *)
(***************************************************************************)
\* texts tried on every reachable state
TestRaws ==
  {<<>>, <<"a", "b", "c">>, <<"-", "1">>, <<"-", "0", ".", "5">>,
   <<"-">> \o InfinityChars, InfinityChars, <<"0">>, <<"8">>,
   <<"1", "2", "k", "g">>, <<"2", "2", "0", "0">>,
   <<"2", "5", "0", "0", ".", "5">>, <<"\t", "8">>, <<"1", "e", "3">>,
   <<"-", "0", ".", "0", "5">>, <<"2", "5", "0", "0", ".", "0", "5">>,
   <<"U+00A0", "8">>, <<"U+00E9", "8">>}

\* the text parses to a finite number >= 0
FiniteNonNegative(raw) ==
  LET v == parseFloat(raw) IN v.t = "num" /\ v.n >= 0

\* the text is not a number, or is a negative one
NotANumberOrNegative(raw) ==
  LET v == parseFloat(raw)
  IN  v.t \in {"nan", "ninf"} \/ (v.t = "num" /\ v.n < 0)

\* the current day's record exists and is completed
CurrentDayCompleted ==
  /\ appData.currentDay \in DOMAIN appData.days
  /\ appData.days[appData.currentDay].completed

\* the number of habits a record marks completed
CompletedCount(dayData) ==
  Cardinality({h \in HabitSet : dayData.completedHabits[h]})

Measurements(dayData) == [h \in HabitSet |-> dayData[h]]

\* this step is a saveHabit that saved its value
SavedStep == last'.op = "saveHabit" /\ last'.result = Saved

\* this step is a restartChallenge that went ahead
RestartStep == last'.op = "restartChallenge" /\ last'.result = Restarted

\* C1: on a day d < 100 not yet completed, the saveHabit after which all five
\* habits of day d are marked completed leaves, in that step, score 100 and
\* completed for day d, the streak one higher and currentDay = d + 1.
C1_CompletingEntry ==
  [][LET d == appData.currentDay
     IN  (/\ SavedStep
          /\ d < MAX_DAY
          /\ ~CurrentDayCompleted
          /\ \A h \in HabitSet : appData'.days[d].completedHabits[h])
         => /\ appData'.days[d].score = 100
            /\ appData'.days[d].completed
            /\ appData'.streak = appData.streak + 1
            /\ appData'.currentDay = d + 1]_vars

\* C2 as stated: on a completed current day saveHabit reports DayLocked for
\* every habit and every input, and changes nothing.
C2_AlwaysDayLocked ==
  CurrentDayCompleted =>
    \A habit \in HabitSet, raw \in TestRaws :
      LET r == saveHabit(appData, storage, habit, raw)
      IN  r.result = DayLocked /\ r.appData = appData /\ r.storage = storage

\* C2 amended: on a completed current day saveHabit changes nothing, for
\* every habit and every input; it reports InvalidInput when the input is
\* not a number or is negative, and DayLocked for every other input.
C2_LockedDayUnchanged ==
  CurrentDayCompleted =>
    \A habit \in HabitSet, raw \in TestRaws :
      LET r == saveHabit(appData, storage, habit, raw)
      IN  /\ r.result = IF NotANumberOrNegative(raw) THEN InvalidInput
                        ELSE DayLocked
          /\ r.appData = appData
          /\ r.storage = storage

C2_Witness ==
  /\ last = Op("saveHabit", DayLocked)
  /\ appData.currentDay = MAX_DAY
  /\ CurrentDayCompleted

\* C3: currentDay is in 1..100 and no record exists for a day above 100, in
\* memory and in the stored item; completing day 100 leaves currentDay at 100.
C3_DayRange ==
  /\ appData.currentDay \in 1..MAX_DAY
  /\ DOMAIN appData.days \subseteq 1..MAX_DAY
  /\ storage.data.currentDay \in 1..MAX_DAY
  /\ DOMAIN storage.data.days \subseteq 1..MAX_DAY

C3_Witness ==
  /\ last.op = "saveHabit" /\ last.result = Saved
  /\ appData.currentDay = MAX_DAY
  /\ CurrentDayCompleted
  /\ appData.streak = MAX_DAY

\* C4: a completed day stays completed, with its measurements and score, in
\* every step but a restart that goes ahead.
C4_CompletedStays ==
  [][\A d \in DOMAIN appData.days :
       (appData.days[d].completed /\ ~RestartStep)
       => /\ d \in DOMAIN appData'.days
          /\ appData'.days[d].completed
          /\ Measurements(appData'.days[d]) = Measurements(appData.days[d])
          /\ appData'.days[d].score = appData.days[d].score]_vars

\* C5: every input that does not parse to a finite number >= 0 is refused
\* with InvalidInput and changes nothing (no record is created).
C5_OnlyFiniteAccepted ==
  \A habit \in HabitSet, raw \in TestRaws :
    ~FiniteNonNegative(raw) =>
      LET r == saveHabit(appData, storage, habit, raw)
      IN  r.result = InvalidInput /\ r.appData = appData /\ r.storage = storage

\* the rules as the claim C6 states them: v = c / 10^s against k is
\* c * 10^-s against k, or c against k * 10^s, in digits
RuleMet(habit, v) ==
  LET left == TimesPow10(ToDigits(v), 0 - v.s)
      right(k) == TimesPow10(DigitsOfInt(k), v.s)
      atLeast(k) == \/ v.t = "inf"
                    \/ v.t = "num" /\ v.n >= 0 /\ Cmp(left, right(k)) >= 0
      atMost(k) == v.t = "num" /\ (v.n < 0 \/ Cmp(left, right(k)) <= 0)
  IN  CASE habit = "sleep" -> atLeast(7)
        [] habit = "water" -> atLeast(8)
        [] habit = "workout" -> atLeast(30)
        [] habit = "study" -> atLeast(60)
        [] habit = "food" -> atLeast(2000) /\ atMost(2500)

\* C6: isHabitCompleted(h, v) is v >= min for sleep (7), water (8), workout
\* (30) and study (60), 2000 <= v <= 2500 for food, and false for an unset v.
C6_Rules ==
  fnResult # "none" =>
    (fnResult = "true") = (fnValue # Null /\ RuleMet(fnHabit, fnValue))

C6_Witness ==
  fnResult = "true" /\ fnHabit = "food" /\ fnValue = Int2Num(FOOD_MAX)

\* C7: every record's score is 20 times the number of its completed habits.
C7_ScoreIsCount ==
  \A d \in DOMAIN appData.days :
    appData.days[d].score = 20 * CompletedCount(appData.days[d])

\* C8: in every record, in memory and stored, completed is true exactly when
\* all five completedHabits entries are true.
C8_CompletedIffAll ==
  /\ \A d \in DOMAIN appData.days :
       appData.days[d].completed = (CompletedCount(appData.days[d]) = 5)
  /\ \A d \in DOMAIN storage.data.days :
       storage.data.days[d].completed
         = (CompletedCount(storage.data.days[d]) = 5)

C8_Witness ==
  /\ last.op = "saveHabit" /\ last.result = Saved
  /\ appData.currentDay = 2
  /\ appData.days[1].completed
  /\ CompletedCount(appData.days[1]) = 5

\* the values tried in pairs on every reachable state
PairRaws ==
  [sleep |-> {<<"6", ".", "9">>, <<"8">>, InfinityChars},
   water |-> {<<"7">>, <<"8">>},
   workout |-> {<<"2", "9">>, <<"3", "0">>},
   study |-> {<<"5", "9">>, <<"6", "0">>},
   food |-> {<<"2", "2", "0", "0">>, <<"2", "5", "0", "0", ".", "5">>,
             <<"2", "5", "0", "0", ".", "0", "5">>}]

\* C9: saving v1 and then another value v2 for a habit, the day not completed
\* by v1, gives the record that saving v2 alone gives; a habit v1 completed is
\* not completed after a v2 that misses the rule, and the score is 20 lower.
C9_LastWriteWins ==
  \A habit \in HabitSet :
    \A raw1 \in PairRaws[habit] :
     \A raw2 \in PairRaws[habit] \ {raw1} :
      LET day == appData.currentDay
          r1 == saveHabit(appData, storage, habit, raw1)
          r2 == saveHabit(r1.appData, r1.storage, habit, raw2)
          alone == saveHabit(appData, storage, habit, raw2)
          rec1 == r1.appData.days[day]
          rec2 == r2.appData.days[day]
      IN  (r1.result = Saved /\ ~r1.scheduled)
          => /\ r2.result = Saved
             /\ rec2 = alone.appData.days[day]
             /\ (rec1.completedHabits[habit]
                   /\ ~RuleMet(habit, parseFloat(raw2)))
                => /\ ~rec2.completedHabits[habit]
                   /\ rec2.score = rec1.score - 20

\* food saved again on day 1 with a value above the maximum
C9_Witness ==
  /\ last = Note("saveHabit", Saved, "overwrite")
  /\ appData.currentDay = 1
  /\ appData.days[1].food = Num(25005)
  /\ ~appData.days[1].completedHabits["food"]
  /\ appData.days[1].score = 20 * CompletedCount(appData.days[1])

\* C10: a restart that goes ahead leaves currentDay = 1, streak = 0, no days
\* and the prior motivation text if it is kept, the empty text otherwise, and
\* stores exactly that.
C10_RestartResets ==
  [][RestartStep =>
       /\ appData' = [currentDay |-> 1, streak |-> 0, days |-> <<>>,
                      whyStarted |-> IF last'.note = "kept"
                                     THEN appData.whyStarted ELSE ""]
       /\ storage' = [present |-> TRUE, data |-> appData']]_vars

C10_Witness ==
  /\ last = Note("restartChallenge", Restarted, "kept")
  /\ appData = [currentDay |-> 1, streak |-> 0, days |-> <<>>,
                whyStarted |-> "X"]
  /\ storage.data = appData

\* the days 1..k all have a record, and it is completed
DaysCompleted(app, k) ==
  \A d \in 1..k : d \in DOMAIN app.days /\ app.days[d].completed

\* C11: where the days 1..k are all completed, currentDay = k + 1 and day
\* k + 1 has no record yet, updateStreak sets the streak to k.
C11_StreakOfDaysBefore ==
  LET k == appData.currentDay - 1
  IN  (/\ appData.currentDay \notin DOMAIN appData.days
       /\ DaysCompleted(appData, k))
      => updateStreak(appData).streak = k

\* day d has a record, and it is completed
DayDone(app, d) == d \in DOMAIN app.days /\ app.days[d].completed

\* the length of the longest run of completed days d, d - 1, ... that starts
\* at d = currentDay
RunFromCurrentDay(app) ==
  CHOOSE n \in 0..app.currentDay :
    /\ n = app.currentDay \/ ~DayDone(app, app.currentDay - n)
    /\ \A d \in (app.currentDay - n + 1)..app.currentDay : DayDone(app, d)

\* this state was left by init or by the callback of restartChallenge, the
\* two callers of updateStreak
AfterUpdateStreak == last.op \in {"init", "restartCallback"}

\* C15: updateStreak sets the streak to the length of the longest run of
\* completed days that starts at currentDay itself: 0 whenever currentDay's
\* record is missing or not completed, and never more than currentDay.
C15_StreakFromCurrentDay ==
  LET s == updateStreak(appData).streak
  IN  /\ s = RunFromCurrentDay(appData)
      /\ ~CurrentDayCompleted => s = 0
      /\ s <= appData.currentDay
      /\ AfterUpdateStreak => appData.streak = s

\* init after a reload on day 2, day 1 completed: the streak is 0
C15_Witness ==
  /\ last.op = "init"
  /\ appData.currentDay = 2
  /\ DayDone(appData, 1)
  /\ ~CurrentDayCompleted
  /\ appData.streak = 0

\* the number of consecutive completed days that end at day e
RunEndingAt(app, e) ==
  CHOOSE n \in 0..e :
    /\ n = e \/ ~DayDone(app, e - n)
    /\ \A d \in (e - n + 1)..e : DayDone(app, d)

\* the most recently completed day: currentDay once it is completed (day
\* 100), the day before currentDay while the current day is in progress
LastCompletedDay(app) ==
  IF DayDone(app, app.currentDay) THEN app.currentDay
  ELSE app.currentDay - 1

\* C16: the streak is the number of consecutive completed days that end at
\* the most recently completed day, and a reload of a state whose stored copy
\* is up to date leaves the streak as it is.
C16_StreakIsRun ==
  /\ appData.streak = RunEndingAt(appData, LastCompletedDay(appData))
  /\ storage = saveData(appData)
     => init(LoadAppData(storage)).streak = appData.streak

\* C13: whenever no handler is running and the page has been initialized,
\* the stored item is what saveData writes for the in-memory appData: every
\* change of appData has been saved.
C13_StoredIsCurrent == ~initPending => storage = saveData(appData)

\* this step is one of the two delayed callbacks
CallbackStep == last'.op \in {"completeCallback", "restartCallback"}

\* the record of day d as it is read: a missing record reads as a new one
RecordRead(app, d) ==
  IF d \in DOMAIN app.days THEN app.days[d] ELSE NewDayData

\* C14: a delayed callback, whenever it runs among the other operations,
\* leaves currentDay, the streak and every day's measurements, score and
\* completed as they are (a record it creates is an empty one).
C14_CallbacksChangeNothing ==
  [][CallbackStep =>
       /\ appData'.currentDay = appData.currentDay
       /\ appData'.streak = appData.streak
       /\ \A d \in DOMAIN appData.days \cup DOMAIN appData'.days :
            /\ Measurements(RecordRead(appData', d))
                 = Measurements(RecordRead(appData, d))
            /\ RecordRead(appData', d).score = RecordRead(appData, d).score
            /\ RecordRead(appData', d).completed
                 = RecordRead(appData, d).completed]_vars

\* C17: restartChallenge asks for confirmation exactly when currentDay >= 100
\* and day 100 is completed; when the user declines, appData and the stored
\* item stay as they are; in every other state it goes ahead without a prompt
\* and keeps the motivation text.
C17_RestartConfirmation ==
  \A answer1 \in BOOLEAN, answer2 \in BOOLEAN :
    LET r == restartChallenge(appData, storage, answer1, answer2)
        done100 == appData.currentDay >= 100 /\ DayDone(appData, 100)
    IN  /\ r.prompted = done100
        /\ (r.prompted /\ ~answer1)
           => ~r.proceeded /\ r.appData = appData /\ r.storage = storage
        /\ ~r.prompted
           => /\ r.proceeded
              /\ r.appData = [currentDay |-> 1, streak |-> 0, days |-> <<>>,
                              whyStarted |-> appData.whyStarted]
              /\ r.storage = [present |-> TRUE, data |-> r.appData]

\* the restart was declined on the completed day 100, the motivation text set
C17_Witness ==
  /\ last.op = "restartChallenge" /\ last.result = Declined
  /\ appData.currentDay = MAX_DAY
  /\ CurrentDayCompleted
  /\ appData.whyStarted = "X"
  /\ storage.data.whyStarted = "X"

\* this step is a saveWhy
SaveWhyStep == last'.op = "saveWhy"

\* the records before and after agree on every habit but k
OtherHabitsKept(before, after, k) ==
  \A h \in HabitSet \ {k} :
    /\ after[h] = before[h]
    /\ after.completedHabits[h] = before.completedHabits[h]

\* C18: a saveHabit that saves changes, of the current day's record, only
\* the measurement and completedHabits entry of one habit, the score and (on
\* completion) completed; streak and currentDay change only on completion;
\* the other days' records and the motivation text stay.  A saveWhy changes
\* the motivation text only.
C18_Frame ==
  [][/\ SavedStep =>
          LET day == appData.currentDay
              before == RecordRead(appData, day)
              after == appData'.days[day]
          IN  /\ \E k \in HabitSet : OtherHabitsKept(before, after, k)
              /\ DOMAIN appData'.days = DOMAIN appData.days \cup {day}
              /\ \A d \in DOMAIN appData.days \ {day} :
                   appData'.days[d] = appData.days[d]
              /\ appData'.whyStarted = appData.whyStarted
              /\ ~after.completed
                 => /\ ~before.completed
                    /\ appData'.streak = appData.streak
                    /\ appData'.currentDay = appData.currentDay
              /\ after.completed
                 => /\ appData'.streak = appData.streak + 1
                    /\ appData'.currentDay = NextDay(appData.currentDay)
     /\ SaveWhyStep =>
          appData' = [appData EXCEPT !.whyStarted = appData'.whyStarted]]_vars

\* water saved on day 1 after sleep: sleep's value and entry are still there
C18_Witness ==
  /\ last = Note("saveHabit", Saved, "first")
  /\ appData.currentDay = 1
  /\ appData.days[1].sleep = Int2Num(8)
  /\ appData.days[1].completedHabits["sleep"]
  /\ appData.days[1].water = Int2Num(8)
  /\ appData.days[1].study = Null
  /\ appData.whyStarted = "X"

\* C20: every day before currentDay has a completed record and no day after
\* currentDay has a record, in memory and in the stored item: no past day is
\* incomplete and no day is completed out of order.
C20_LinearAdvance ==
  /\ DaysCompleted(appData, appData.currentDay - 1)
  /\ DOMAIN appData.days \subseteq 1..appData.currentDay
  /\ DaysCompleted(storage.data, storage.data.currentDay - 1)
  /\ DOMAIN storage.data.days \subseteq 1..storage.data.currentDay

\* day 2 begun after day 1 was completed and its callback has run
C20_Witness ==
  /\ last.op = "completeCallback"
  /\ appData.currentDay = 2
  /\ DOMAIN appData.days = {1, 2}
  /\ appData.days[1].completed
  /\ ~appData.days[2].completed
  /\ DOMAIN storage.data.days = {1}

(***************************************************************************)
(* The page load from any stored item.  JSON.parse can give currentDay and *)
(* streak any type and value, so here the two fields are JavaScript values *)
(* ([t, n, s] as above, null, a string that reads as no number, or         *)
(* undefined for a missing field), the keys of days are these values       *)
(* (days[2.5] is the key Num(25)), and a record may lack completedHabits.  *)
(* The field days is present.  The handlers and the callbacks can run on   *)
(* the parsed item before init has run.                                    *)
(***************************************************************************)
AString == [t |-> "str", n |-> 0, s |-> 0, h |-> 0]
Undefined == [t |-> "undef", n |-> 0, s |-> 0, h |-> 0]

\* typeof v === 'number'
typeofNumber(v) == v.t \in {"num", "inf", "ninf", "nan"}

\* v < k for a number v
LessThan(v, k) == v.t = "ninf" \/ (v.t = "num" /\ Floor(v) < k)

\* init, lines 649-654
NormaliseStored(app) ==
  [app EXCEPT
     !.currentDay = IF ~typeofNumber(@) \/ LessThan(@, 1)
                    THEN Int2Num(1) ELSE @,
     !.streak = IF ~typeofNumber(@) \/ LessThan(@, 0)
                THEN Int2Num(0) ELSE @]

\* the number a value is converted to in a comparison or an increment
ToNumber(v) ==
  IF typeofNumber(v) THEN v
  ELSE IF v = Null THEN Int2Num(0)
  ELSE NaN

\* value++ (lines 362 and 366)
Increment(v) ==
  CHOOSE r \in {IF x.t # "num" THEN x ELSE PlusInt(x, 1) :
                  x \in {ToNumber(v)}} : TRUE

\* the loop of updateStreak does not end
NeverEnds == 0 - 1

\* updateStreak's loop (lines 393-402) at the test of day >= 1, with the
\* streak counted so far: the streak the loop ends with, or NeverEnds. The
\* loop ends when day is no number of 1 or more, or no key of a completed
\* record. The day after day-- is day - 1 rounded to a double: from 2^53 on,
\* and for Infinity, it can be day itself, and the loop then tests the same
\* completed record again, without end.
RECURSIVE StreakLoop(_, _, _)
StreakLoop(days, day, streak) ==
  IF ToNumber(day).t \notin {"num", "inf"} \/ LessThan(ToNumber(day), 1)
  THEN streak
  ELSE IF ~(day \in DOMAIN days /\ days[day].completed) THEN streak
  ELSE CHOOSE r \in
         {IF after[1] = day THEN NeverEnds
          ELSE StreakLoop(days, after[1], after[2]) :
            after \in {<<IF day.t = "inf" THEN day
                         ELSE PlusInt(day, 0 - 1),
                         streak + 1>>}} : TRUE

\* updateStreak's loop started at day (line 393)
CountBackStored(app, day) ==
  CHOOSE r \in {StreakLoop(days, d, 0) :
                  days \in {app.days}, d \in {day}} : TRUE

\* updateStreak on such an appData: whether its loop never ends, and
\* appData when it does (line 404); it is as it was when it does not
updateStreakStored(app) ==
  CHOOSE r \in
    {IF streak = NeverEnds THEN [appData |-> app, hangs |-> TRUE]
     ELSE [appData |-> [app EXCEPT !.streak = Int2Num(streak)],
           hangs |-> FALSE] :
       streak \in {CountBackStored(app, app.currentDay)}} : TRUE

\* loadCurrentDayUI, line 302: reading completedHabits[habit] of a record
\* without completedHabits throws a TypeError
loadCurrentDayUIThrows(app) ==
  "completedHabits" \notin DOMAIN app.days[app.currentDay]

\* JSON.stringify of appData with any values in currentDay and streak: NaN
\* and the infinities are written as null
saveDataStored(app) ==
  [present |-> TRUE,
   data |-> [JSONstringify(app) EXCEPT !.currentDay = JSONNumber(@),
                                       !.streak = JSONNumber(@)]]

\* init on the parsed item: appData and the stored item after it,
\* whether it ended in its catch block, and whether it never ends.
\* updateStreak saves (line 405) before loadCurrentDayUI runs; the last
\* statement of the try block saves again (line 675). When the loop of
\* updateStreak does not end, init has done lines 646-654 and saved nothing.
initStored(app, store) ==
  CHOOSE r \in
    {LET a1 == u.appData
         a2 == getCurrentDayData(a1)
     IN  IF u.hangs
         THEN [appData |-> a1, storage |-> store, failed |-> FALSE,
               hangs |-> TRUE]
         ELSE IF loadCurrentDayUIThrows(a2)
         THEN [appData |-> a2, storage |-> saveDataStored(a1),
               failed |-> TRUE, hangs |-> FALSE]
         ELSE [appData |-> a2, storage |-> saveDataStored(a2),
               failed |-> FALSE, hangs |-> FALSE] :
       u \in {updateStreakStored(NormaliseStored(app))}} : TRUE

Failed == "failed"
Parsed == "parsed"
Threw == "threw"
Hangs == "hangs"

\* completeCurrentDay up to its saveData, on such an appData
completeCurrentDayStored(app) ==
  LET a1 == getCurrentDayData(app)
      day == a1.currentDay
  IN  [a1 EXCEPT !.days[day].completed = TRUE,
                 !.streak = Increment(@),
                 !.currentDay = IF LessThan(ToNumber(@), MAX_DAY)
                                THEN Increment(@) ELSE @]

\* saveHabit on such an appData: line 180 throws a TypeError on a record
\* without completedHabits, after line 176 has set the value and before
\* saveData
saveHabitStored(app, store, habit, raw) ==
  CHOOSE r \in
    {LET a1 == getCurrentDayData(app)
          day == a1.currentDay
          dayData == a1.days[day]
          a2 == [a1 EXCEPT !.days[day] = RecordValue(dayData, habit, value)]
          a3 == completeCurrentDayStored(a2)
      IN  IF InvalidValue(value)
          THEN [appData |-> app, storage |-> store, result |-> InvalidInput,
                scheduled |-> FALSE]
          ELSE IF IsLocked(dayData)
          THEN [appData |-> a1, storage |-> store, result |-> DayLocked,
                scheduled |-> FALSE]
          ELSE IF "completedHabits" \notin DOMAIN dayData
          THEN [appData |-> [a1 EXCEPT !.days[day][habit] = value],
                storage |-> store, result |-> Threw, scheduled |-> FALSE]
          ELSE IF areAllHabitsCompleted(a2.days[day])
          THEN [appData |-> a3, storage |-> saveDataStored(a3), result |-> Saved,
                scheduled |-> TRUE]
          ELSE [appData |-> a2, storage |-> saveDataStored(a2), result |-> Saved,
                scheduled |-> FALSE] :
       value \in {parseFloat(raw)}} : TRUE

\* restartChallenge, line 712, on such an appData
ChallengeCompletedStored(app) ==
  /\ AtLeast(ToNumber(app.currentDay), MAX_DAY)
  /\ Int2Num(MAX_DAY) \in DOMAIN app.days
  /\ app.days[Int2Num(MAX_DAY)].completed = TRUE

\* appData as JSON.parse gives it back when it is well formed
StoredForm(app) ==
  [currentDay |-> Int2Num(app.currentDay),
   streak |-> Int2Num(app.streak),
   days |-> [k \in {Int2Num(d) : d \in DOMAIN app.days} |->
               app.days[k.n]],
   whyStarted |-> app.whyStarted]

restartChallengeStored(app, store, answer1, answer2) ==
  LET isCompleted == ChallengeCompletedStored(app)
      confirmed == IF isCompleted THEN answer1 ELSE TRUE
      keepMotivation == IF isCompleted /\ confirmed THEN answer2 ELSE TRUE
      a1 == StoredForm(ResetAppData(app, keepMotivation))
  IN  IF confirmed
      THEN [appData |-> a1, storage |-> saveDataStored(a1),
            proceeded |-> TRUE]
      ELSE [appData |-> app, storage |-> store, proceeded |-> FALSE]

\* the callback restartChallenge schedules: updateStreak (line 773), which
\* saves, is reached when loadCurrentDayUI (line 770) does not throw
restartCallbackStored(app, store) ==
  CHOOSE r \in
    {IF loadCurrentDayUIThrows(a1)
     THEN [appData |-> a1, storage |-> store, failed |-> TRUE,
           hangs |-> FALSE]
     ELSE CHOOSE q \in
            {IF u.hangs
             THEN [appData |-> a1, storage |-> store, failed |-> FALSE,
                   hangs |-> TRUE]
             ELSE [appData |-> u.appData,
                   storage |-> saveDataStored(u.appData),
                   failed |-> FALSE, hangs |-> FALSE] :
               u \in {updateStreakStored(a1)}} : TRUE :
       a1 \in {getCurrentDayData(app)}} : TRUE

\* a record written without completedHabits, sleep logged
OldDayData ==
  [sleep |-> Int2Num(8), water |-> Null, workout |-> Null, study |-> Null,
   food |-> Null, score |-> POINTS_PER_HABIT, completed |-> FALSE]

\* the days of the stored items tried: day 1 open, day 1 completed, day 1
\* completed and day 2 begun, the same with records that lack
\* completedHabits, all of the days 1..100 completed, day 1 with every
\* habit entered but sleep and water, the same before such a record of day
\* 2, and the days 1..99 completed with every habit entered on day 100 but
\* sleep
StoredDays ==
  {StoredForm(FreshState.appData).days,
   StoredForm(DaysDone(1).appData).days,
   StoredForm(completeCallback(DaysDone(1).appData)).days,
   [k \in {Int2Num(1)} |-> OldDayData],
   [k \in {Int2Num(1), Int2Num(2)} |->
      IF k = Int2Num(1) THEN GoodDay ELSE OldDayData],
   StoredForm(DaysDone(MAX_DAY).appData).days,
   StoredForm(EnterAll(FreshState, 3).appData).days,
   [k \in {Int2Num(1), Int2Num(2)} |->
      IF k = Int2Num(1) THEN EnterAll(FreshState, 3).appData.days[1]
      ELSE OldDayData],
   StoredForm(LastDayState.appData).days}

\* the values of currentDay and of streak tried
StoredCurrentDays ==
  {Int2Num(1), Int2Num(2), Int2Num(MAX_DAY), Int2Num(MAX_DAY + 1),
   Int2Num(0), Int2Num(0 - 1), Num(25), AString, Undefined}
StoredStreaks ==
  {Int2Num(0), Int2Num(1), Int2Num(5), Int2Num(0 - 1), Num(15),
   Decimal(57, 2), Decimal(HighUnit, 0), AString, Undefined}

\* 2^53 + 4, a day that day-- leaves as it is, and 2^53 + 2, which day--
\* takes to 2^53
StuckDay == DecimalValue(FALSE, Add(TwoTo53, <<4>>), 0)
SlidingDay == DecimalValue(FALSE, Add(TwoTo53, <<2>>), 0)

\* items whose currentDay is such a day, with a completed record
HugeDayItems ==
  {[present |-> TRUE,
    data |-> [currentDay |-> c, streak |-> Int2Num(5),
              days |-> [k \in {c} |-> GoodDay], whyStarted |-> "X"]] :
     c \in {StuckDay, SlidingDay}}

\* items whose currentDay is the JSON number 1e999, which JSON.parse reads
\* as Infinity: without records, and with a record of that day that is open,
\* lacks completedHabits, or is completed
InfiniteDayItems ==
  {[present |-> TRUE,
    data |-> [currentDay |-> Infinity, streak |-> Int2Num(5), days |-> ds,
              whyStarted |-> "X"]] :
     ds \in {NoDays,
             [k \in {Infinity} |-> NewDayData],
             [k \in {Infinity} |-> OldDayData],
             [k \in {Infinity} |-> GoodDay]}}

StoredItems ==
  {NoItem} \cup HugeDayItems \cup InfiniteDayItems \cup
  {[present |-> TRUE,
    data |-> [currentDay |-> c, streak |-> s, days |-> ds,
              whyStarted |-> "X"]] :
     c \in StoredCurrentDays, s \in StoredStreaks, ds \in StoredDays}

\* line 23 on such an item: the parsed item, or the default object
LoadStored(store) ==
  IF store.present THEN store.data ELSE StoredForm(DefaultAppData)

\* the script has run up to line 28: appData is the parsed item
InitLoad ==
  /\ storage \in StoredItems
  /\ appData = LoadStored(storage)
  /\ last = Op(ScriptRun, Parsed)
  /\ initPending = TRUE
  /\ pendingComplete = 0
  /\ pendingRestart = 0
  /\ fnHabit = "sleep"
  /\ fnValue = Null
  /\ fnResult = "none"

\* the page runs no handler and no callback while a call does not return
Responsive == last.result # Hangs

\* init runs when the document is ready
RunInit ==
  LET r == initStored(appData, storage)
  IN  /\ Responsive
      /\ initPending
      /\ appData' = r.appData
      /\ storage' = r.storage
      /\ last' = Op("init", IF r.hangs THEN Hangs
                             ELSE IF r.failed THEN Failed ELSE Done)
      /\ initPending' = FALSE
      /\ UNCHANGED <<pendingComplete, pendingRestart, Scoring>>

\* the habits and texts entered after such a load
LoadHabits == {"sleep", "water"}
LoadRaws == {<<"8">>}

SaveHabitStored(habit, raw) ==
  LET r == saveHabitStored(appData, storage, habit, raw)
  IN  /\ Responsive
      /\ r.scheduled => pendingComplete < MaxTimers
      /\ appData' = r.appData
      /\ storage' = r.storage
      /\ pendingComplete' = IF r.scheduled THEN pendingComplete + 1
                            ELSE pendingComplete
      /\ last' = Op("saveHabit", r.result)
      /\ UNCHANGED <<pendingRestart, initPending, Scoring>>

SaveWhyStored(text) ==
  /\ Responsive
  /\ appData' = [appData EXCEPT !.whyStarted = text]
  /\ storage' = saveDataStored(appData')
  /\ last' = Op("saveWhy", Done)
  /\ UNCHANGED <<pendingComplete, pendingRestart, initPending, Scoring>>

RestartChallengeStored(answer1, answer2) ==
  LET r == restartChallengeStored(appData, storage, answer1, answer2)
  IN  /\ Responsive
      /\ r.proceeded => pendingRestart < MaxTimers
      /\ appData' = r.appData
      /\ storage' = r.storage
      /\ pendingRestart' = IF r.proceeded THEN pendingRestart + 1
                           ELSE pendingRestart
      /\ last' = Op("restartChallenge",
                     IF r.proceeded THEN Restarted ELSE Declined)
      /\ UNCHANGED <<pendingComplete, initPending, Scoring>>

\* the callback of completeCurrentDay: loadCurrentDayUI creates the record
\* of the current day when there is none, then throws or not
CompleteCallbackStored ==
  /\ Responsive
  /\ pendingComplete > 0
  /\ pendingComplete' = pendingComplete - 1
  /\ appData' = getCurrentDayData(appData)
  /\ last' = Op("completeCallback",
                IF loadCurrentDayUIThrows(appData') THEN Threw ELSE Done)
  /\ UNCHANGED <<storage, pendingRestart, initPending, Scoring>>

RestartCallbackStored ==
  LET r == restartCallbackStored(appData, storage)
  IN  /\ Responsive
      /\ pendingRestart > 0
      /\ pendingRestart' = pendingRestart - 1
      /\ appData' = r.appData
      /\ storage' = r.storage
      /\ last' = Op("restartCallback",
                     IF r.hangs THEN Hangs
                     ELSE IF r.failed THEN Threw ELSE Done)
      /\ UNCHANGED <<pendingComplete, initPending, Scoring>>

\* the page is loaded again, also one that does not respond
ReloadStored ==
  /\ appData' = LoadStored(storage)
  /\ pendingComplete' = 0
  /\ pendingRestart' = 0
  /\ initPending' = TRUE
  /\ last' = Op("reload", Parsed)
  /\ UNCHANGED <<storage, Scoring>>

NextLoad ==
  \/ RunInit
  \/ \E habit \in LoadHabits, raw \in LoadRaws : SaveHabitStored(habit, raw)
  \/ \E text \in WhyTexts : SaveWhyStored(text)
  \/ \E answer1 \in BOOLEAN, answer2 \in BOOLEAN :
       RestartChallengeStored(answer1, answer2)
  \/ CompleteCallbackStored
  \/ RestartCallbackStored
  \/ ReloadStored

SpecLoad == InitLoad /\ [][NextLoad]_vars

\* v is an integer in lo..hi, v is an integer >= lo
IsIntegerIn(v, lo, hi) ==
  v.t = "num" /\ v.s = 0 /\ v.h = 0 /\ v.n >= lo /\ v.n <= hi
IsIntegerFrom(v, lo) ==
  /\ v.t = "num" /\ v.s <= 0
  /\ IF v.s = 0 /\ v.h = 0 THEN v.n >= lo ELSE v.n > 0

\* this step is an init that ran to its end, one that ended in its catch
InitDoneStep == last'.op = "init" /\ last'.result = Done
InitFailedStep == last'.op = "init" /\ last'.result = Failed

\* C12: after init, a stored currentDay that is not an integer in 1..100 has
\* been replaced by 1 and a stored streak that is not an integer >= 0 by 0,
\* so that currentDay is an integer in 1..100 and streak an integer >= 0.
C12_TolerantRead ==
  [][InitDoneStep =>
       /\ ~IsIntegerIn(appData.currentDay, 1, MAX_DAY)
          => appData'.currentDay = Int2Num(1)
       /\ ~IsIntegerFrom(appData.streak, 0)
          => appData'.streak = Int2Num(0)
       /\ IsIntegerIn(appData'.currentDay, 1, MAX_DAY)
       /\ IsIntegerFrom(appData'.streak, 0)]_vars

\* C19: an init that fails with an exception leaves the stored item exactly
\* as it was before init began.
C19_FailedInitKeepsStorage ==
  [][InitFailedStep => storage' = storage]_vars

\* this state was left by a saveHabit that reported DayLocked
DayLockedArisen == last.op = "saveHabit" /\ last.result = DayLocked

\* this step is a restartChallenge, gone ahead or declined
RestartInvokedStep == last'.op = "restartChallenge"

\* C21: the current day's record is completed only when currentDay = 100, so
\* DayLocked is reported only on day 100; once it has been reported, every
\* saveHabit reports DayLocked, and currentDay and the streak stay as they
\* are in every step but an invocation of restartChallenge.
C21_LockedOnlyOnLastDay ==
  [][/\ CurrentDayCompleted => appData.currentDay = MAX_DAY
     /\ DayLockedArisen =>
          /\ appData.currentDay = MAX_DAY
          /\ \A habit \in HabitSet, raw \in TestRaws :
               saveHabit(appData, storage, habit, raw).result = DayLocked
          /\ ~RestartInvokedStep
             => /\ appData'.currentDay = appData.currentDay
                /\ appData'.streak = appData.streak]_vars

====
